---- MODULE Spec2Model ----
(***************************************************************************)
(* A model of minitorch/autodiff.py: central_difference, topological_sort, *)
(* backpropagate and Context.                                              *)
(*                                                                         *)
(* Numbers are integers: the derivative values of the source are Python    *)
(* floats, modelled here without rounding.  A Variable is identified by    *)
(* its unique_id (1..MaxNodes).                                            *)
(***************************************************************************)
EXTENDS Integers, Sequences, FiniteSets, TLC

VARIABLES
    graph,              \* the computation graph built by the forward pass
    pc,                 \* "idle" | "loop": position inside backpropagate
    variable,           \* backpropagate's argument: the right-most variable
    deriv,              \* backpropagate's argument: its derivative
    topological_order,  \* backpropagate's local (line 102)
    node_derivative,    \* backpropagate's local dict (line 104)
    idx,                \* position of the for loop of line 107
    derivative,         \* each leaf's accumulated derivative
    acc_calls,          \* log of accumulate_derivative calls <<pass, node, x>>
    chain_calls,        \* log of chain_rule calls <<pass, node, d_output>>
    reads,              \* log of line 108 <<pass, node, cur_deriv>>
    contribs,           \* log of line 115 <<pass, from, to, deriv_>>
    passes,             \* log of backpropagate calls <<variable, deriv>>
    ctx,                \* a Context: [no_grad, saved_values]
    ctx_calls,          \* log of save_for_backward argument tuples
    cd                  \* a central_difference activation

vars == <<graph, pc, variable, deriv, topological_order, node_derivative, idx,
          derivative, acc_calls, chain_calls, reads, contribs, passes,
          ctx, ctx_calls, cd>>

bpVars == <<graph, pc, variable, deriv, topological_order, node_derivative, idx,
            derivative, acc_calls, chain_calls, reads, contribs, passes>>

ctxVars == <<ctx, ctx_calls>>

----------------------------------------------------------------------------
(* Bounds *)

MaxNodes == 4

MaxPasses == 2

MaxCalls == 3

MaxArgs == 2

MaxVal == 2

MaxEps == 2

Nodes == 1..MaxNodes

Derivs == {1, 2}

----------------------------------------------------------------------------
(* Small helpers *)

RECURSIVE SumSeq(_)
SumSeq(s) == IF s = <<>> THEN 0 ELSE Head(s) + SumSeq(Tail(s))

Last(s) == s[Len(s)]

Positions(s, x) == {i \in DOMAIN s : s[i] = x}

\* dict.get(k, 0.0)
DictGet(d, k) == IF k \in DOMAIN d THEN d[k] ELSE 0

\* d[k] = v
DictSet(d, k, v) == [x \in (DOMAIN d) \cup {k} |-> IF x = k THEN v ELSE d[x]]

EmptyDict == [x \in {} |-> 0]

----------------------------------------------------------------------------
(* The Variable protocol: the graph the forward pass builds.               *)
(* A node is a leaf, a constant, or the result of a binary operation on    *)
(* two earlier nodes (the same node twice allowed: x + x).                 *)

LeafNode == [kind |-> "leaf", fn |-> "none", parents |-> <<>>]

ConstNode == [kind |-> "const", fn |-> "none", parents |-> <<>>]

OpNode(f, p, q) == [kind |-> "op", fn |-> f, parents |-> <<p, q>>]

NodeChoices(k) ==
    {LeafNode, ConstNode}
        \cup {OpNode(f, p, q) : f \in {"add", "mul"}, p \in 1..(k-1), q \in 1..(k-1)}

RECURSIVE GraphsOfSize(_)
GraphsOfSize(k) ==
    IF k = 0 THEN {<<>>}
    ELSE {Append(g, r) : g \in GraphsOfSize(k-1), r \in NodeChoices(k)}

Graphs == GraphsOfSize(MaxNodes)

is_leaf(g, v) == g[v].kind = "leaf"

is_constant(g, v) == g[v].kind = "const"

parents(g, v) == g[v].parents

\* The forward value of a node; leaves and constants hold 2*id+1.
RECURSIVE Value(_, _)
Value(g, v) ==
    IF g[v].kind # "op" THEN 2 * v + 1
    ELSE IF g[v].fn = "add" THEN Value(g, g[v].parents[1]) + Value(g, g[v].parents[2])
    ELSE Value(g, g[v].parents[1]) * Value(g, g[v].parents[2])

\* d(v)/d(parent in slot i)
LocalDeriv(g, v, i) ==
    IF g[v].fn = "add" THEN 1 ELSE Value(g, g[v].parents[3 - i])

\* chain_rule(d_output): one (parent, local derivative * d_output) pair per parent
chain_rule(g, v, d_output) ==
    [i \in DOMAIN g[v].parents |-> <<g[v].parents[i], LocalDeriv(g, v, i) * d_output>>]

\* accumulate_derivative(x) on leaf v: adds x to the leaf's derivative
accumulate_derivative(acc, v, x) == [acc EXCEPT ![v] = @ + x]

----------------------------------------------------------------------------
(* topological_sort *)

NeverVisited(st, v) == FALSE

AlreadyVisited(st, v) == v \in st.visited

NeverConstant(g, v) == FALSE

SkipConstant(g, v) == is_constant(g, v)

ForgetVisited(st, v) == st

\* visited.add(variable_.unique_id)
MarkVisited(st, v) == [st EXCEPT !.visited = @ \cup {v}]

PrependNode(st, v) == [st EXCEPT !.topological_order = <<v>> \o @]

AppendNode(st, v) == [st EXCEPT !.topological_order = Append(@, v)]

RECURSIVE dfs(_, _, _)
RECURSIVE dfsParents(_, _, _, _)
dfs(g, v, st) ==
    IF AlreadyVisited(st, v) THEN st
    ELSE IF SkipConstant(g, v) THEN st
    ELSE AppendNode(dfsParents(g, parents(g, v), 1, MarkVisited(st, v)), v)

dfsParents(g, ps, i, st) ==
    IF i > Len(ps) THEN st
    ELSE dfsParents(g, ps, i + 1, dfs(g, ps[i], st))

NotReversed(s) == s

Reversed(s) == [i \in 1..Len(s) |-> s[Len(s) + 1 - i]]

topological_sort(g, v) ==
    Reversed(dfs(g, v, [visited |-> {}, topological_order |-> <<>>]).topological_order)

----------------------------------------------------------------------------
(* backpropagate *)

LeakyNodeDerivative(v, d) == DictSet(node_derivative, v, d)

\* node_derivative = {}; node_derivative[variable.unique_id] = deriv
NewNodeDerivative(v, d) == DictSet(EmptyDict, v, d)

Overwrite(prev, deriv_) == deriv_

\* prev + deriv_
Accumulate(prev, deriv_) == prev + deriv_

NotLeafBranch(g, v) == ~is_leaf(g, v)

\* the test of line 110, read as "the else branch is taken"
LeafBranch(g, v) == is_leaf(g, v)

\* the inner loop of lines 113-115 over the pairs chain_rule returned
RECURSIVE AddContribs(_, _, _)
AddContribs(nd, pairs, i) ==
    IF i > Len(pairs) THEN nd
    ELSE LET input == pairs[i][1]
             deriv_ == pairs[i][2]
             prev == DictGet(nd, input)
         IN AddContribs(DictSet(nd, input, Accumulate(prev, deriv_)), pairs, i + 1)

CurPass == Len(passes)

\* lines 102-105: the call, the sort and the seeding of the dict
Backpropagate(v, d) ==
    /\ pc = "idle"
    /\ Len(passes) < MaxPasses
    /\ variable' = v
    /\ deriv' = d
    /\ topological_order' = topological_sort(graph, v)
    /\ node_derivative' = NewNodeDerivative(v, d)
    /\ idx' = 1
    /\ passes' = Append(passes, <<v, d>>)
    /\ pc' = "loop"
    /\ UNCHANGED <<graph, derivative, acc_calls, chain_calls, reads, contribs>>

\* one iteration of the for loop, not is_leaf branch (lines 108-115)
LoopNonLeaf ==
    /\ pc = "loop"
    /\ idx <= Len(topological_order)
    /\ LET cur_node == topological_order[idx]
           cur_deriv == DictGet(node_derivative, cur_node)
           pairs == chain_rule(graph, cur_node, cur_deriv)
       IN /\ ~LeafBranch(graph, cur_node)
          /\ reads' = Append(reads, <<CurPass, cur_node, cur_deriv>>)
          /\ chain_calls' = Append(chain_calls, <<CurPass, cur_node, cur_deriv>>)
          /\ contribs' = contribs \o
                 [i \in DOMAIN pairs |-> <<CurPass, cur_node, pairs[i][1], pairs[i][2]>>]
          /\ node_derivative' = AddContribs(node_derivative, pairs, 1)
    /\ idx' = idx + 1
    /\ UNCHANGED <<graph, pc, variable, deriv, topological_order, derivative,
                   acc_calls, passes>>

\* one iteration of the for loop, leaf branch (lines 108, 117-119)
LoopLeaf ==
    /\ pc = "loop"
    /\ idx <= Len(topological_order)
    /\ LET cur_node == topological_order[idx]
           cur_deriv == DictGet(node_derivative, cur_node)
       IN /\ LeafBranch(graph, cur_node)
          /\ reads' = Append(reads, <<CurPass, cur_node, cur_deriv>>)
          /\ acc_calls' = Append(acc_calls, <<CurPass, cur_node, cur_deriv>>)
          /\ derivative' = accumulate_derivative(derivative, cur_node, cur_deriv)
    /\ idx' = idx + 1
    /\ UNCHANGED <<graph, pc, variable, deriv, topological_order, node_derivative,
                   chain_calls, contribs, passes>>

\* the for loop is exhausted: backpropagate returns
Return ==
    /\ pc = "loop"
    /\ idx > Len(topological_order)
    /\ pc' = "idle"
    /\ UNCHANGED <<graph, variable, deriv, topological_order, node_derivative, idx,
                   derivative, acc_calls, chain_calls, reads, contribs, passes>>

----------------------------------------------------------------------------
(* Context *)

ArgVals == {1, 2}

ArgTuples == UNION {[1..n -> ArgVals] : n \in 0..MaxArgs}

\* if self.no_grad: return
NoGradReturn(c) == c.no_grad

AppendValues(c, values) == [c EXCEPT !.saved_values = @ \o values]

\* self.saved_values = values
StoreValues(c, values) == [c EXCEPT !.saved_values = values]

save_for_backward(c, values) ==
    IF NoGradReturn(c) THEN c ELSE StoreValues(c, values)

saved_tensors(c) == c.saved_values

SaveForBackward(values) ==
    /\ Len(ctx_calls) < MaxCalls
    /\ ctx' = save_for_backward(ctx, values)
    /\ ctx_calls' = Append(ctx_calls, values)

----------------------------------------------------------------------------
(* central_difference *)

Vals == (0 - MaxVal)..MaxVal

Epsilons == 0..MaxEps

\* the functions f handed to central_difference, by number of arguments
FuncsOfArity(n) == IF n = 1 THEN {"sq"} ELSE IF n = 2 THEN {"mul", "sub"} ELSE {}

MaxArity == 2

Apply(f, args) ==
    IF f = "sq" THEN args[1] * args[1]
    ELSE IF f = "mul" THEN args[1] * args[2]
    ELSE args[1] - args[2]

\* a Python list index (negative counts from the end) as a position 1..n, 0 if out of range
PyIndex(n, i) ==
    IF i >= 0 /\ i < n THEN i + 1
    ELSE IF i < 0 /\ i >= 0 - n THEN n + i + 1
    ELSE 0

\* a / b on numbers: the quotient as a fraction <<a, b>>
PyTrueDiv(a, b) == IF b = 0 THEN "ZeroDivisionError" ELSE <<a, b>>

CopyOfPlus(c) == c.vals_plus_eps

\* list(vals) of line 28
CopyOfVals(c) == c.vals

CdInputs ==
    {[f |-> f, vals |-> vs, arg |-> a, epsilon |-> e] :
        f \in {"sq", "mul", "sub"}, vs \in UNION {[1..n -> Vals] : n \in 1..MaxArity},
        a \in (0 - MaxArity - 1)..MaxArity, e \in Epsilons}

CdIdle == [pc |-> "none"]

\* the call: *vals packs the positional arguments into a tuple
CdCall(in) ==
    /\ cd = CdIdle
    /\ in.f \in FuncsOfArity(Len(in.vals))
    /\ in.arg >= 0 - Len(in.vals) - 1
    /\ in.arg <= Len(in.vals)
    /\ cd' = [pc |-> "l25", f |-> in.f, vals |-> in.vals, args0 |-> in.vals,
              arg |-> in.arg, epsilon |-> in.epsilon,
              vals_plus_eps |-> <<>>, vals_minus_eps |-> <<>>,
              f_calls |-> <<>>, result |-> "none"]

\* line 25
CdCopyPlus ==
    /\ cd.pc = "l25"
    /\ cd' = [cd EXCEPT !.pc = "l26", !.vals_plus_eps = cd.vals]

\* line 26
CdAddEps ==
    /\ cd.pc = "l26"
    /\ PyIndex(Len(cd.vals_plus_eps), cd.arg) # 0
    /\ cd' = [cd EXCEPT !.pc = "l28",
                        !.vals_plus_eps[PyIndex(Len(cd.vals_plus_eps), cd.arg)] =
                            @ + cd.epsilon]

\* line 26 with arg out of range
CdIndexError ==
    /\ cd.pc = "l26"
    /\ PyIndex(Len(cd.vals_plus_eps), cd.arg) = 0
    /\ cd' = [cd EXCEPT !.pc = "raised", !.result = "IndexError"]

\* line 28
CdCopyMinus ==
    /\ cd.pc = "l28"
    /\ cd' = [cd EXCEPT !.pc = "l29", !.vals_minus_eps = CopyOfVals(cd)]

\* line 29
CdSubEps ==
    /\ cd.pc = "l29"
    /\ cd' = [cd EXCEPT !.pc = "l30",
                        !.vals_minus_eps[PyIndex(Len(cd.vals_minus_eps), cd.arg)] =
                            @ - cd.epsilon]

\* line 30: both evaluations of f, then the division
CdReturn ==
    /\ cd.pc = "l30"
    /\ LET q == PyTrueDiv(Apply(cd.f, cd.vals_plus_eps) - Apply(cd.f, cd.vals_minus_eps),
                          2 * cd.epsilon)
       IN cd' = [cd EXCEPT !.pc = IF q = "ZeroDivisionError" THEN "raised" ELSE "done",
                           !.f_calls = <<cd.vals_plus_eps, cd.vals_minus_eps>>,
                           !.result = q]

----------------------------------------------------------------------------
(* Specifications *)

CtxFresh == [no_grad |-> FALSE, saved_values |-> <<>>]

BpIdle ==
    /\ pc = "idle"
    /\ variable = 0
    /\ deriv = 0
    /\ topological_order = <<>>
    /\ node_derivative = EmptyDict
    /\ idx = 0
    /\ derivative = [n \in Nodes |-> 0]
    /\ acc_calls = <<>>
    /\ chain_calls = <<>>
    /\ reads = <<>>
    /\ contribs = <<>>
    /\ passes = <<>>

\* backpropagate over every graph of MaxNodes nodes
Init ==
    /\ graph \in Graphs
    /\ BpIdle
    /\ ctx = CtxFresh
    /\ ctx_calls = <<>>
    /\ cd = CdIdle

Next ==
    \/ \E v \in Nodes, d \in Derivs : Backpropagate(v, d) /\ UNCHANGED <<ctx, ctx_calls, cd>>
    \/ LoopNonLeaf /\ UNCHANGED <<ctx, ctx_calls, cd>>
    \/ LoopLeaf /\ UNCHANGED <<ctx, ctx_calls, cd>>
    \/ Return /\ UNCHANGED <<ctx, ctx_calls, cd>>

Spec == Init /\ [][Next]_vars

\* one call of backpropagate
NextCall ==
    \/ \E v \in Nodes, d \in Derivs :
           passes = <<>> /\ Backpropagate(v, d) /\ UNCHANGED <<ctx, ctx_calls, cd>>
    \/ LoopNonLeaf /\ UNCHANGED <<ctx, ctx_calls, cd>>
    \/ LoopLeaf /\ UNCHANGED <<ctx, ctx_calls, cd>>
    \/ Return /\ UNCHANGED <<ctx, ctx_calls, cd>>

\* the call runs to completion: the engine is single-threaded and synchronous,
\* nothing suspends a call between two of its steps
FairSpec == Init /\ [][NextCall]_vars /\ WF_vars(NextCall)

\* a Context as the dataclass constructs it: no_grad given, saved_values = ()
InitCtx ==
    /\ graph = <<>>
    /\ BpIdle
    /\ ctx \in {[CtxFresh EXCEPT !.no_grad = b] : b \in BOOLEAN}
    /\ ctx_calls = <<>>
    /\ cd = CdIdle

NextCtx ==
    \E values \in ArgTuples : SaveForBackward(values) /\ UNCHANGED <<bpVars, cd>>

SpecCtx == InitCtx /\ [][NextCtx]_vars

InitCd ==
    /\ graph = <<>>
    /\ BpIdle
    /\ ctx = CtxFresh
    /\ ctx_calls = <<>>
    /\ cd = CdIdle

NextCd ==
    \/ \E in \in CdInputs : CdCall(in) /\ UNCHANGED <<bpVars, ctxVars>>
    \/ CdCopyPlus /\ UNCHANGED <<bpVars, ctxVars>>
    \/ CdAddEps /\ UNCHANGED <<bpVars, ctxVars>>
    \/ CdIndexError /\ UNCHANGED <<bpVars, ctxVars>>
    \/ CdCopyMinus /\ UNCHANGED <<bpVars, ctxVars>>
    \/ CdSubEps /\ UNCHANGED <<bpVars, ctxVars>>
    \/ CdReturn /\ UNCHANGED <<bpVars, ctxVars>>

SpecCd == InitCd /\ [][NextCd]_vars

----------------------------------------------------------------------------
(* Graph notions the properties are stated with *)

ParentSet(g, n) == {g[n].parents[i] : i \in DOMAIN g[n].parents}

\* the nodes reachable from the nodes of S through parent links (S included)
RECURSIVE ReachFrom(_, _)
ReachFrom(g, S) ==
    LET S2 == S \cup UNION {ParentSet(g, n) : n \in S}
    IN IF S2 = S THEN S ELSE ReachFrom(g, S2)

Reach(g, t) == ReachFrom(g, {t})

\* the non-constant nodes reachable from t
Differentiable(g, t) == {n \in Reach(g, t) : ~is_constant(g, n)}

\* the number of distinct parent chains from n down to m
RECURSIVE Chains(_, _, _)
Chains(g, n, m) ==
    IF n = m THEN 1
    ELSE SumSeq([i \in DOMAIN g[n].parents |-> Chains(g, g[n].parents[i], m)])

\* the sum, over the paths from n to l, of what chain_rule hands down along
\* the path when n receives d
RECURSIVE PathTotal(_, _, _, _)
PathTotal(g, n, l, d) ==
    IF n = l THEN d
    ELSE LET pairs == chain_rule(g, n, d)
         IN SumSeq([i \in DOMAIN pairs |-> PathTotal(g, pairs[i][1], l, pairs[i][2])])

Count(s, P(_)) == Cardinality({i \in DOMAIN s : P(s[i])})

Sorted == pc = "loop"

CompletedPasses == IF pc = "idle" THEN 1..Len(passes) ELSE 1..(Len(passes) - 1)

----------------------------------------------------------------------------
(* Properties of topological_sort *)

\* C2: in the sequence topological_sort returns, for every edge child -> parent
\* between two nodes of the sequence, the child stands strictly before the parent.
C2_ChildBeforeParent ==
    Sorted =>
        \A i \in DOMAIN topological_order, j \in DOMAIN topological_order :
            topological_order[j] \in ParentSet(graph, topological_order[i]) => i < j

C2_Witness ==
    /\ Sorted
    /\ Len(topological_order) = 4
    /\ \E i \in 1..3 : topological_order[i + 1] \notin ParentSet(graph, topological_order[i])

\* C3: the sequence holds every non-constant node reachable from the terminal
\* node (the terminal node included), each exactly once, also a node reachable
\* along two or more distinct parent chains.
C3_EveryNodeOnce ==
    Sorted =>
        /\ \A n \in Differentiable(graph, variable) :
               Cardinality(Positions(topological_order, n)) = 1
        /\ \A i \in DOMAIN topological_order :
               topological_order[i] \in Differentiable(graph, variable)

C3_Witness ==
    /\ Sorted
    /\ \E n \in Differentiable(graph, variable) :
           /\ Chains(graph, variable, n) >= 2
           /\ \E m \in ParentSet(graph, variable) : m # n /\ n \in ParentSet(graph, m)
           /\ n \in ParentSet(graph, variable)
           /\ Cardinality(Positions(topological_order, n)) = 1

\* C9 as stated: the terminal node is first and every leaf of the sequence comes
\* after every non-leaf node of the sequence; a terminal leaf gives one element.
C9_LeavesLast ==
    Sorted =>
        /\ ~is_constant(graph, variable) => topological_order[1] = variable
        /\ \A i \in DOMAIN topological_order, j \in DOMAIN topological_order :
               (is_leaf(graph, topological_order[i]) /\ ~is_leaf(graph, topological_order[j]))
                   => j < i
        /\ is_leaf(graph, variable) => Len(topological_order) = 1

\* C9 amended: the terminal node is first and every leaf of the sequence comes
\* after every non-leaf node of the sequence that it is reachable from; a
\* terminal leaf gives one element.
C9_LeavesAfterDependents ==
    Sorted =>
        /\ ~is_constant(graph, variable) =>
               /\ Len(topological_order) >= 1
               /\ topological_order[1] = variable
        /\ \A i \in DOMAIN topological_order, j \in DOMAIN topological_order :
               (/\ is_leaf(graph, topological_order[i])
                /\ ~is_leaf(graph, topological_order[j])
                /\ topological_order[i] \in Reach(graph, topological_order[j]))
                   => j < i
        /\ is_leaf(graph, variable) => topological_order = <<variable>>

C9_Witness ==
    /\ Sorted
    /\ \E i \in DOMAIN topological_order, j \in DOMAIN topological_order :
           /\ i < j
           /\ is_leaf(graph, topological_order[i])
           /\ ~is_leaf(graph, topological_order[j])
           /\ topological_order[1] = variable

----------------------------------------------------------------------------
(* Properties of backpropagate *)

Terminal(p) == passes[p][1]

Seed(p) == passes[p][2]

\* the values accumulate_derivative received on leaf l during pass p
AccValues(p, l) == {acc_calls[i][3] : i \in {k \in DOMAIN acc_calls :
                                                 acc_calls[k][1] = p /\ acc_calls[k][2] = l}}

AccCount(p, l) == Count(acc_calls, LAMBDA c : c[1] = p /\ c[2] = l)

ChainCount(p, n) == Count(chain_calls, LAMBDA c : c[1] = p /\ c[2] = n)

ReachableLeaves(p) == {l \in Reach(graph, Terminal(p)) : is_leaf(graph, l)}

\* C1: a finished backpropagate(terminal, d) has called accumulate_derivative
\* exactly once on each leaf reachable from the terminal node, with the sum over
\* all paths from the terminal node to the leaf of the chain_rule contributions
\* seeded with d.
C1_LeafTotals ==
    \A p \in CompletedPasses : \A l \in ReachableLeaves(p) :
        /\ AccCount(p, l) = 1
        /\ AccValues(p, l) = {PathTotal(graph, Terminal(p), l, Seed(p))}

\* out = (x + x) * y with x = 3, y = 5 and d = 1: 10 at x and 6 at y
C1_Witness ==
    /\ pc = "idle"
    /\ graph = <<LeafNode, LeafNode, OpNode("add", 1, 1), OpNode("mul", 3, 2)>>
    /\ passes = << <<4, 1>> >>
    /\ Value(graph, 1) = 3
    /\ Value(graph, 2) = 5
    /\ acc_calls = << <<1, 2, 6>>, <<1, 1, 10>> >>

Constants == {n \in Nodes : is_constant(graph, n)}

ConstantUntouched ==
    /\ \A i \in DOMAIN topological_order : topological_order[i] \notin Constants
    /\ \A i \in DOMAIN acc_calls : acc_calls[i][2] \notin Constants
    /\ \A i \in DOMAIN chain_calls : chain_calls[i][2] \notin Constants
    /\ (Sorted /\ variable \in Constants) => topological_order = <<>>

Dependents(p, n) == {m \in Differentiable(graph, Terminal(p)) : n \in ParentSet(graph, m)}

ReadPos(p, n) == {i \in DOMAIN reads : reads[i][1] = p /\ reads[i][2] = n}

\* what pass p has added for n so far, plus the seed at the terminal node
Incoming(p, n) ==
    (IF n = Terminal(p) THEN Seed(p) ELSE 0)
        + SumSeq([i \in DOMAIN contribs |->
                     IF contribs[i][1] = p /\ contribs[i][3] = n THEN contribs[i][4] ELSE 0])

\* C5: when backpropagate processes a node, every dependent of the node has been
\* processed already, and the value read is the sum of the contributions of all
\* its dependents (plus the seed at the terminal node): nothing is dropped,
\* counted twice or added after the node was processed.
C5_FullDerivativeWhenProcessed ==
    \A k \in DOMAIN reads :
        LET p == reads[k][1]
            n == reads[k][2]
        IN /\ \A m \in Dependents(p, n) : \E j \in ReadPos(p, m) : j < k
           /\ reads[k][3] = Incoming(p, n)
           /\ Count(contribs, LAMBDA c : c[1] = p /\ c[3] = n)
                  = SumSeq([i \in 1..MaxNodes |->
                               IF i \in Dependents(p, n)
                               THEN Count(graph[i].parents, LAMBDA x : x = n) ELSE 0])

C5_Witness ==
    \E k \in DOMAIN reads :
        LET p == reads[k][1]
            n == reads[k][2]
        IN /\ Cardinality(Dependents(p, n)) = 2
           /\ \A i \in DOMAIN contribs : contribs[i][4] # 0
           /\ \E d1 \in 1..20, d2 \in 1..20 :
                  /\ d1 # d2
                  /\ \E i \in DOMAIN contribs, j \in DOMAIN contribs :
                         /\ contribs[i] = <<p, contribs[i][2], n, d1>>
                         /\ contribs[j] = <<p, contribs[j][2], n, d2>>
                         /\ contribs[i][2] # contribs[j][2]
                  /\ reads[k][3] = d1 + d2

PassesReaching(l) == {p \in 1..Len(passes) : l \in Reach(graph, Terminal(p))}

\* C6: over several backpropagate calls that share leaves no leaf is ever reset:
\* once the calls have returned, each leaf has received one accumulate_derivative
\* call per pass that reaches it and holds the sum of the per-pass totals; and
\* every call starts from a fresh id-to-derivative map.
C6_LeavesAddAcrossPasses ==
    /\ pc = "idle" =>
           \A l \in Nodes : is_leaf(graph, l) =>
               /\ Count(acc_calls, LAMBDA c : c[2] = l) = Cardinality(PassesReaching(l))
               /\ derivative[l] =
                      SumSeq([p \in 1..Len(passes) |->
                                 IF p \in PassesReaching(l)
                                 THEN PathTotal(graph, Terminal(p), l, Seed(p)) ELSE 0])
    /\ (pc = "loop" /\ idx = 1) =>
           /\ DOMAIN node_derivative = {variable}
           /\ node_derivative[variable] = deriv

C6_Witness ==
    /\ pc = "idle"
    /\ Len(passes) = 2
    /\ Terminal(1) # Terminal(2)
    /\ \E l \in Nodes :
           /\ PassesReaching(l) = {1, 2}
           /\ is_leaf(graph, l)
           /\ derivative[l] > PathTotal(graph, Terminal(2), l, Seed(2))
           /\ PathTotal(graph, Terminal(2), l, Seed(2)) > 0
    /\ ~is_leaf(graph, Terminal(1))
    /\ ~is_leaf(graph, Terminal(2))

C10_ProcessedOnce ==
    /\ \A p \in CompletedPasses : \A n \in Reach(graph, Terminal(p)) :
           /\ (~is_constant(graph, n) /\ ~is_leaf(graph, n)) => ChainCount(p, n) = 1
           /\ is_leaf(graph, n) => AccCount(p, n) = 1
    /\ \A p \in 1..Len(passes) : \A n \in Nodes :
           /\ ChainCount(p, n) + AccCount(p, n) <= 1
           /\ ChainCount(p, n) + AccCount(p, n) = 1 => n \in Reach(graph, Terminal(p))
    /\ \A i \in DOMAIN acc_calls : is_leaf(graph, acc_calls[i][2])
    /\ \A i \in DOMAIN chain_calls : ~is_leaf(graph, chain_calls[i][2])

\* C10: backpropagate terminates, having made exactly one chain_rule call on each
\* reachable non-constant non-leaf node and exactly one accumulate_derivative
\* call on each reachable leaf, never accumulate_derivative on a non-leaf node
\* and never chain_rule on a leaf.
C10_TerminatesProcessedOnce ==
    /\ [](C10_ProcessedOnce)
    /\ (pc = "loop") ~> (pc = "idle")

C10_Witness ==
    /\ pc = "idle"
    /\ Len(passes) = 1
    /\ Len(chain_calls) = 2
    /\ Len(acc_calls) = 2

----------------------------------------------------------------------------
(* Properties of Context *)

\* C7: after any sequence of save_for_backward calls, a Context with no_grad
\* false holds exactly the arguments of the most recent call, and a Context with
\* no_grad true holds nothing, whatever was passed.
C7_SavedIsLastCall ==
    /\ (~ctx.no_grad /\ ctx_calls # <<>>) => saved_tensors(ctx) = Last(ctx_calls)
    /\ ctx.no_grad => saved_tensors(ctx) = <<>>
    /\ ctx_calls = <<>> => saved_tensors(ctx) = <<>>

C7_Witness ==
    /\ ~ctx.no_grad
    /\ Len(ctx_calls) = 2
    /\ ctx_calls[1] = <<1, 2>>
    /\ ctx_calls[2] = <<2>>
    /\ saved_tensors(ctx) = <<2>>

----------------------------------------------------------------------------
(* Properties of central_difference *)

\* vals with eps added at Python index arg
Perturbed(vs, a, eps) == [vs EXCEPT ![PyIndex(Len(vs), a)] = @ + eps]

\* C8: central_difference(f, *vals, arg=i, epsilon=e) returns
\* (f(v+) - f(v-)) / (2*e), v+ and v- being vals with e added to and subtracted
\* from index i alone; f is evaluated on exactly these two argument lists and the
\* caller's values are unchanged.
C8_SymmetricQuotient ==
    LET vplus == Perturbed(cd.args0, cd.arg, cd.epsilon)
        vminus == Perturbed(cd.args0, cd.arg, 0 - cd.epsilon)
        i == PyIndex(Len(cd.args0), cd.arg)
    IN /\ cd.pc = "done" =>
              /\ cd.epsilon # 0
              /\ cd.result = <<Apply(cd.f, vplus) - Apply(cd.f, vminus), 2 * cd.epsilon>>
       /\ (cd.pc = "done" \/ (cd.pc = "raised" /\ cd.result = "ZeroDivisionError")) =>
              /\ cd.f_calls = <<vplus, vminus>>
              /\ \A k \in DOMAIN cd.args0 :
                     k # i => cd.f_calls[1][k] = cd.args0[k] /\ cd.f_calls[2][k] = cd.args0[k]
              /\ cd.f_calls[1][i] = cd.args0[i] + cd.epsilon
              /\ cd.f_calls[2][i] = cd.args0[i] - cd.epsilon
       /\ cd.pc # "none" => cd.vals = cd.args0

\* central_difference(lambda a, b: a * b, 2, -1, arg=1, epsilon=2) = (2*1 - 2*(-3)) / 4
C8_Witness ==
    /\ cd.pc = "done"
    /\ cd.f = "mul"
    /\ cd.args0 = <<2, 0 - 1>>
    /\ cd.arg = 1
    /\ cd.epsilon = 2
    /\ cd.f_calls = << <<2, 1>>, <<2, 0 - 3>> >>
    /\ cd.result = <<8, 4>>

====
